---------------------------- MODULE Spec2Model ----------------------------
(***************************************************************************)
(* A model of expense_sheet.py, the Streamlit personal-finance dashboard.  *)
(*                                                                         *)
(* The script is re-run from top to bottom every time a sidebar widget     *)
(* changes.  The state is the value of every widget together with every    *)
(* quantity the script derives from them; each action is one widget edit   *)
(* followed by the whole re-run.                                           *)
(*                                                                         *)
(* Numbers.  The script computes in floating point; the model computes in  *)
(* exact arithmetic on a lattice:                                          *)
(*   - an amount of money is a whole number of steps of $6.25 (Usd turns   *)
(*     the script's dollar literals, all multiples of $25, into steps);    *)
(*   - a rate r is held as the integer r * RateScale;                      *)
(*   - a tax (an amount times a rate) is held in 1/RateScale of a step;    *)
(*   - a quotient is held exactly as a mixed number w + n/d (record        *)
(*     [w, n, d], 0 <= n < d, n/d in lowest terms, w the floor).           *)
(***************************************************************************)
EXTENDS Integers, Sequences, FiniteSets

RateScale == 100 * 100

Usd(dollars) == (dollars * 4) \div 25

Min(a, b) == IF a <= b THEN a ELSE b
Max(a, b) == IF a >= b THEN a ELSE b

---------------------------------------------------------------------------
(* Exact quotients as mixed numbers.                                       *)

RECURSIVE GCD(_, _)
GCD(a, b) == IF b = 0 THEN a ELSE GCD(b, a % b)

Norm(w, n, d) ==
    IF n = 0 THEN [w |-> w, n |-> 0, d |-> 1]
    ELSE LET g == GCD(n, d) IN [w |-> w, n |-> n \div g, d |-> d \div g]

Whole(k) == [w |-> k, n |-> 0, d |-> 1]

\* x * y / d for x, y >= 0 and d > 0, without forming the product x * y
MulDiv(x, y, d) ==
    LET a == y \div d
        p == x * (y % d)
    IN  Norm(x * a + p \div d, p % d, d)

\* k - m for an integer k and a mixed number m
IntMinus(k, m) ==
    IF m.n = 0 THEN Whole(k - m.w)
    ELSE [w |-> k - m.w - 1, n |-> m.d - m.n, d |-> m.d]

\* m + k and m - k for a mixed number m and an integer k
PlusInt(m, k) == [m EXCEPT !.w = @ + k]
MinusInt(m, k) == [m EXCEPT !.w = @ - k]

\* m / k for a mixed number m and an integer k > 0
DivInt(m, k) ==
    LET a == m.w \div k
        b == m.w % k
    IN  Norm(a, b * m.d + m.n, k * m.d)

\* order against an integer
GtInt(m, k) == m.w > k \/ (m.w = k /\ m.n > 0)
LeInt(m, k) == ~GtInt(m, k)
GeInt(m, k) == m.w >= k
LtInt(m, k) == m.w < k

---------------------------------------------------------------------------
(* Tables and literals of the script.                                      *)

STATE_TAX_RATES ==
    [s \in {"None / No State Tax", "California", "New York", "Texas", "Florida",
            "Pennsylvania", "Illinois", "Ohio", "Georgia", "North Carolina",
            "Michigan"} |->
        CASE s = "None / No State Tax" -> 0
          [] s = "California"          -> 930
          [] s = "New York"            -> 685
          [] s = "Texas"               -> 0
          [] s = "Florida"             -> 0
          [] s = "Pennsylvania"        -> 307
          [] s = "Illinois"            -> 495
          [] s = "Ohio"                -> 350
          [] s = "Georgia"             -> 549
          [] s = "North Carolina"      -> 475
          [] s = "Michigan"            -> 425]

DEFAULT_STATE_RATE == 500

get_state_rate(st) ==
    IF st \in DOMAIN STATE_TAX_RATES THEN STATE_TAX_RATES[st] ELSE DEFAULT_STATE_RATE

FilingStatuses == {"Single", "Married Filing Jointly"}

SS_WAGE_CAP == 176100
SS_RATE == 620
MEDICARE_RATE == 145
FALLBACK_RATE == 2200

---------------------------------------------------------------------------
(* The tax estimate, lines 52-101.                                         *)

\* the wage cap forgotten
SsTax_Uncapped(gross_annual) == gross_annual * SS_RATE

SsTax(gross_annual) == Min(gross_annual, Usd(SS_WAGE_CAP)) * SS_RATE

MedicareTax(gross_annual) == gross_annual * MEDICARE_RATE

FicaAnnual(gross_annual) == SsTax(gross_annual) + MedicareTax(gross_annual)

StdDed(fs) == IF fs = "Married Filing Jointly" THEN Usd(31500) ELSE Usd(15750)

TaxableBase(fs, gross_annual) == Max(0, gross_annual - StdDed(fs))

Brackets(fs, tb) ==
    IF fs = "Married Filing Jointly"
    THEN << <<Usd(0), Usd(23850), 1000>>, <<Usd(23850), Usd(96950), 1200>>,
            <<Usd(96950), Usd(206700), 2200>>, <<Usd(206700), Usd(394600), 2400>>,
            <<Usd(394600), Usd(501050), 3200>>, <<Usd(501050), Usd(751600), 3500>>,
            <<Usd(751600), tb, 3700>> >>
    ELSE << <<Usd(0), Usd(11925), 1000>>, <<Usd(11925), Usd(48475), 1200>>,
            <<Usd(48475), Usd(103350), 2200>>, <<Usd(103350), Usd(197300), 2400>>,
            <<Usd(197300), Usd(250525), 3200>>, <<Usd(250525), Usd(626350), 3500>>,
            <<Usd(626350), tb, 3700>> >>

\* min(taxable_base, high) forgotten: the whole base above prev is taxed
BracketStep_NoMin(tb, prev, bracket) ==
    IF tb > prev THEN (tb - prev) * bracket[3] ELSE 0

\* one pass of the body of the for loop: the bracket's contribution
BracketStep(tb, prev, bracket) ==
    IF tb > prev THEN (Min(tb, bracket[2]) - prev) * bracket[3] ELSE 0

\* the for loop over brackets[i..], entered with the running total and prev
RECURSIVE BracketLoop(_, _, _, _, _)
BracketLoop(brackets, i, tb, total, prev) ==
    IF i > Len(brackets) THEN total
    ELSE BracketLoop(brackets, i + 1, tb,
                     total + BracketStep(tb, prev, brackets[i]),
                     brackets[i][2])

FedTaxFull(fs, tb) == BracketLoop(Brackets(fs, tb), 1, tb, 0, 0)

PremiumAnnual(gross_overtime) == gross_overtime \div 3

OtCap(fs) == IF fs = "Married Filing Jointly" THEN Usd(25000) ELSE Usd(12500)

PhaseLimit(fs) == IF fs = "Married Filing Jointly" THEN Usd(300000) ELSE Usd(150000)

\* the cliff one step late: <= for <
OtDeduction_Inclusive(fs, gross_annual, gross_overtime) ==
    IF gross_annual <= PhaseLimit(fs)
    THEN Min(PremiumAnnual(gross_overtime), OtCap(fs))
    ELSE 0

OtDeduction(fs, gross_annual, gross_overtime) ==
    IF gross_annual < PhaseLimit(fs)
    THEN Min(PremiumAnnual(gross_overtime), OtCap(fs))
    ELSE 0

FedTaxSavings(ded, full, tb) ==
    IF tb > 0 THEN MulDiv(ded, full, Max(tb, 1)) ELSE Whole(ded * FALLBACK_RATE)

\* the savings added to the tax instead of taken off it
FedTaxActual_Added(full, savings) == PlusInt(savings, full)

FedTaxActual(full, savings) == IntMinus(full, savings)

StateTax(gross_annual, st) == gross_annual * get_state_rate(st)

\* the payroll tax left out of the total
TotalTaxAnnual_NoFica(fica, actual, statetax) == PlusInt(actual, statetax)

TotalTaxAnnual(fica, actual, statetax) == PlusInt(actual, fica + statetax)

NetAnnual(gross_annual, total_tax) == IntMinus(gross_annual * RateScale, total_tax)

NetMonthly(net) == DivInt(net, 12)

TotalTakeHome(net_m, other) == PlusInt(net_m, other * RateScale)

---------------------------------------------------------------------------
(* The budget, lines 112-139, and the feedback, lines 196-204.             *)

\* the dictionary default_expenses, in insertion order
default_expenses ==
    << <<"Housing (Rent/Mortgage)", Usd(2000)>>,
       <<"Utilities", Usd(250)>>,
       <<"Groceries & Dining", Usd(600)>>,
       <<"Transportation", Usd(400)>>,
       <<"Insurance", Usd(500)>>,
       <<"Debt Payments", Usd(300)>>,
       <<"Entertainment & Subscriptions", Usd(200)>>,
       <<"Personal Care & Clothing", Usd(150)>>,
       <<"Miscellaneous", Usd(300)>> >>

Categories == {default_expenses[i][1] : i \in 1..Len(default_expenses)}

DefaultAmounts ==
    [c \in Categories |->
        default_expenses[CHOOSE i \in 1..Len(default_expenses) :
                            default_expenses[i][1] = c][2]]

\* the for loop over default_expenses.items() from entry i, entered with total
RECURSIVE ExpenseLoop(_, _, _)
ExpenseLoop(amounts, i, total) ==
    IF i > Len(default_expenses) THEN total
    ELSE ExpenseLoop(amounts, i + 1, total + amounts[default_expenses[i][1]])

TotalLifestyleExpenses(amounts) == ExpenseLoop(amounts, 1, 0)

\* the planned savings not taken off
MoneyLeftover_NoSavings(take_home, expenses, savings) ==
    MinusInt(take_home, expenses * RateScale)

MoneyLeftover(take_home, expenses, savings) ==
    MinusInt(MinusInt(take_home, expenses * RateScale), savings * RateScale)

\* >= 500 for > 500
Feedback_From500(leftover) ==
    IF GeInt(leftover, Usd(500) * RateScale) THEN "success"
    ELSE IF GtInt(leftover, 0) THEN "info"
    ELSE IF GtInt(leftover, (0 - Usd(500)) * RateScale) THEN "warning"
    ELSE "error"

\* >= 0 for > 0 and >= -500 for > -500
Feedback_Inclusive(leftover) ==
    IF GtInt(leftover, Usd(500) * RateScale) THEN "success"
    ELSE IF GeInt(leftover, 0) THEN "info"
    ELSE IF GeInt(leftover, (0 - Usd(500)) * RateScale) THEN "warning"
    ELSE "error"

\* which of st.success / st.info / st.warning / st.error the script calls
Feedback(leftover) ==
    IF GtInt(leftover, Usd(500) * RateScale) THEN "success"
    ELSE IF GtInt(leftover, 0) THEN "info"
    ELSE IF GtInt(leftover, (0 - Usd(500)) * RateScale) THEN "warning"
    ELSE "error"

---------------------------------------------------------------------------
(* The state: the sidebar widgets, then what a run of the script derives.  *)

VARIABLES filing_status, state, gross_monthly_salary, gross_overtime_monthly,
          other_net_income, lifestyle_expenses, planned_savings,
          gross_overtime_annual, gross_annual_total, fica_annual, taxable_base,
          fed_tax_full, ot_deduction, fed_tax_savings, fed_tax_actual, state_tax,
          total_tax_annual, net_annual, net_monthly, total_take_home,
          total_lifestyle_expenses, money_leftover, feedback

widgets == <<filing_status, state, gross_monthly_salary, gross_overtime_monthly,
             other_net_income, lifestyle_expenses, planned_savings>>

derived == <<gross_overtime_annual, gross_annual_total, fica_annual, taxable_base,
             fed_tax_full, ot_deduction, fed_tax_savings, fed_tax_actual, state_tax,
             total_tax_annual, net_annual, net_monthly, total_take_home,
             total_lifestyle_expenses, money_leftover, feedback>>

vars == <<widgets, derived>>

\* one run of the script, top to bottom, on the widget values given
Script(fs, st, salary, overtime, other, expenses, savings) ==
    LET goa      == overtime * 12
        gat      == salary * 12 + goa
        fica     == FicaAnnual(gat)
        tb       == TaxableBase(fs, gat)
        full     == FedTaxFull(fs, tb)
        ded      == OtDeduction(fs, gat, goa)
        fsav     == FedTaxSavings(ded, full, tb)
        actual   == FedTaxActual(full, fsav)
        stax     == StateTax(gat, st)
        total    == TotalTaxAnnual(fica, actual, stax)
        net      == NetAnnual(gat, total)
        netm     == NetMonthly(net)
        home     == TotalTakeHome(netm, other)
        lifestyle == TotalLifestyleExpenses(expenses)
        leftover == MoneyLeftover(home, lifestyle, savings)
    IN  [gross_overtime_annual |-> goa, gross_annual_total |-> gat,
         fica_annual |-> fica, taxable_base |-> tb, fed_tax_full |-> full,
         ot_deduction |-> ded, fed_tax_savings |-> fsav, fed_tax_actual |-> actual,
         state_tax |-> stax, total_tax_annual |-> total, net_annual |-> net,
         net_monthly |-> netm, total_take_home |-> home,
         total_lifestyle_expenses |-> lifestyle, money_leftover |-> leftover,
         feedback |-> Feedback(leftover)]

\* the first run, on the widgets' default values (lines 38-49, 113-137)
Init ==
    /\ filing_status = "Single"
    /\ state = "California"
    /\ gross_monthly_salary = Usd(8000)
    /\ gross_overtime_monthly = 0
    /\ other_net_income = 0
    /\ lifestyle_expenses = DefaultAmounts
    /\ planned_savings = Usd(800)
    /\ \E out \in {Script("Single", "California", Usd(8000), 0, 0, DefaultAmounts,
                         Usd(800))} :
           /\ gross_overtime_annual = out.gross_overtime_annual
           /\ gross_annual_total = out.gross_annual_total
           /\ fica_annual = out.fica_annual
           /\ taxable_base = out.taxable_base
           /\ fed_tax_full = out.fed_tax_full
           /\ ot_deduction = out.ot_deduction
           /\ fed_tax_savings = out.fed_tax_savings
           /\ fed_tax_actual = out.fed_tax_actual
           /\ state_tax = out.state_tax
           /\ total_tax_annual = out.total_tax_annual
           /\ net_annual = out.net_annual
           /\ net_monthly = out.net_monthly
           /\ total_take_home = out.total_take_home
           /\ total_lifestyle_expenses = out.total_lifestyle_expenses
           /\ money_leftover = out.money_leftover
           /\ feedback = out.feedback

\* a widget changed: the script runs again on the widget values given
Rerun(fs, st, salary, overtime, other, expenses, savings) ==
    /\ <<fs, st, salary, overtime, other, expenses, savings>> # widgets
    /\ filing_status' = fs
    /\ state' = st
    /\ gross_monthly_salary' = salary
    /\ gross_overtime_monthly' = overtime
    /\ other_net_income' = other
    /\ lifestyle_expenses' = expenses
    /\ planned_savings' = savings
    /\ \E out \in {Script(fs, st, salary, overtime, other, expenses, savings)} :
           /\ gross_overtime_annual' = out.gross_overtime_annual
           /\ gross_annual_total' = out.gross_annual_total
           /\ fica_annual' = out.fica_annual
           /\ taxable_base' = out.taxable_base
           /\ fed_tax_full' = out.fed_tax_full
           /\ ot_deduction' = out.ot_deduction
           /\ fed_tax_savings' = out.fed_tax_savings
           /\ fed_tax_actual' = out.fed_tax_actual
           /\ state_tax' = out.state_tax
           /\ total_tax_annual' = out.total_tax_annual
           /\ net_annual' = out.net_annual
           /\ net_monthly' = out.net_monthly
           /\ total_take_home' = out.total_take_home
           /\ total_lifestyle_expenses' = out.total_lifestyle_expenses
           /\ money_leftover' = out.money_leftover
           /\ feedback' = out.feedback

---------------------------------------------------------------------------
(* The values the user enters, in steps of $6.25.                          *)

\* how many steps on either side of each salary point are entered too
Spread == 1

\* Monthly base salaries that put the annual gross on a line of the tax
\* estimate: nothing; the two standard deductions ($1,312.50, $2,625.00);
\* the first bracket boundary of each table ($2,306.25, $4,612.50); the
\* default $8,000; Single's 22/24 boundary ($9,925); the overtime cliff of
\* each status with and without overtime at the cap ($9,375, $12,500,
\* $18,750, $25,000); the Social Security wage cap ($14,675); Married's
\* 22/24 boundary ($19,850); $37,500; the first salaries in the top bracket
\* of each table ($53,512.50, $65,262.50).
SalaryPoints ==
    {0, 210, 369, 420, 738, 1280, 1500, 1588, 2000, 2348, 3000, 3176, 4000,
     6000, 8562, 10442}

SalaryValues ==
    {v \in {p + k : p \in SalaryPoints, k \in (0 - Spread)..Spread} : v >= 0}

\* Monthly overtime: none; one step; $1,000; a whole standard deduction
\* ($1,312.50) and one step more; a premium at Single's cap ($3,125) and one
\* step more; a premium at Married's cap ($6,250) and one step more.
OvertimeValues == {0, 1, 160, 210, 211, 500, 501, 1000, 1001}

StateNames == DOMAIN STATE_TAX_RATES

\* for the budget: no salary or the default, no overtime or $1,000
BudgetSalaryValues == {0, Usd(8000)}
BudgetOvertimeValues == {0, Usd(1000)}

\* other net income: none, one step, $500, $1,000, $6,000
OtherIncomeValues == {0, 1, Usd(500), Usd(1000), Usd(6000)}

\* planned savings: none, $500, the default $800
PlannedSavingsValues == {0, Usd(500), Usd(800)}

\* a category's amount: nothing or its default
ExpenseValues(category) == {0, DefaultAmounts[category]}

---------------------------------------------------------------------------
(* One action per widget.                                                  *)

SetFilingStatus ==
    \E fs \in FilingStatuses :
        Rerun(fs, state, gross_monthly_salary, gross_overtime_monthly,
              other_net_income, lifestyle_expenses, planned_savings)

SetState ==
    \E st \in StateNames :
        Rerun(filing_status, st, gross_monthly_salary, gross_overtime_monthly,
              other_net_income, lifestyle_expenses, planned_savings)

SetSalary(values) ==
    \E v \in values :
        Rerun(filing_status, state, v, gross_overtime_monthly,
              other_net_income, lifestyle_expenses, planned_savings)

SetOvertime(values) ==
    \E v \in values :
        Rerun(filing_status, state, gross_monthly_salary, v,
              other_net_income, lifestyle_expenses, planned_savings)

SetOtherIncome ==
    \E v \in OtherIncomeValues :
        Rerun(filing_status, state, gross_monthly_salary, gross_overtime_monthly,
              v, lifestyle_expenses, planned_savings)

SetExpense ==
    \E c \in Categories : \E v \in ExpenseValues(c) :
        Rerun(filing_status, state, gross_monthly_salary, gross_overtime_monthly,
              other_net_income, [lifestyle_expenses EXCEPT ![c] = v],
              planned_savings)

SetPlannedSavings ==
    \E v \in PlannedSavingsValues :
        Rerun(filing_status, state, gross_monthly_salary, gross_overtime_monthly,
              other_net_income, lifestyle_expenses, v)

\* the user works on the income widgets
Next ==
    \/ SetFilingStatus
    \/ SetState
    \/ SetSalary(SalaryValues)
    \/ SetOvertime(OvertimeValues)

Spec == Init /\ [][Next]_vars

\* the user works on the budget widgets
NextBudget ==
    \/ SetSalary(BudgetSalaryValues)
    \/ SetOvertime(BudgetOvertimeValues)
    \/ SetOtherIncome
    \/ SetExpense
    \/ SetPlannedSavings

SpecBudget == Init /\ [][NextBudget]_vars

---------------------------------------------------------------------------
(* The claims.  Dollar figures are the specification's own, turned into    *)
(* steps by Usd and into 1/RateScale steps by Scaled.                      *)

Scaled(dollars) == Usd(dollars) * RateScale

Married == filing_status = "Married Filing Jointly"

\* C1 (as stated; the script violates it): in every run
\* federalTaxActual = federalTaxFull - federalTaxSavings and
\* federalTaxSavings <= federalTaxFull, so federalTaxActual is never
\* negative, also when taxableBase is 0 or small and the overtime deduction
\* is positive.
C1_SavingsWithinFullTax ==
    /\ fed_tax_actual = IntMinus(fed_tax_full, fed_tax_savings)
    /\ LeInt(fed_tax_savings, fed_tax_full)
    /\ GeInt(fed_tax_actual, 0)

\* C2 (as stated; the script violates it): a leftover of exactly $500 is
\* Adequate (st.info), of exactly $0 is Adequate (st.info), and of exactly
\* -$500 is SlightlyOver (st.warning).
C2_BoundariesAsClaimed ==
    /\ money_leftover = Whole(Scaled(500)) => feedback = "info"
    /\ money_leftover = Whole(0) => feedback = "info"
    /\ money_leftover = Whole(0 - Scaled(500)) => feedback = "warning"

\* C2 (amended): a leftover of exactly $500 is Adequate (st.info), of
\* exactly $0 is SlightlyOver (st.warning), and of exactly -$500 is
\* Overspending (st.error).
C2_BoundariesOfTheScript ==
    /\ money_leftover = Whole(Scaled(500)) => feedback = "info"
    /\ money_leftover = Whole(0) => feedback = "warning"
    /\ money_leftover = Whole(0 - Scaled(500)) => feedback = "error"

\* a run whose leftover is exactly -$500 and is reported as overspending
C2_Witness ==
    /\ money_leftover = Whole(0 - Scaled(500))
    /\ feedback = "error"

\* C3: exactly one status is chosen and it depends on the leftover alone:
\* Comfortable iff leftover > 500, Adequate iff 0 < leftover <= 500,
\* SlightlyOver iff -500 < leftover <= 0, Overspending iff leftover <= -500.
C3_StatusByLeftover ==
    /\ feedback \in {"success", "info", "warning", "error"}
    /\ feedback = "success" <=> GtInt(money_leftover, Scaled(500))
    /\ feedback = "info" <=>
           GtInt(money_leftover, 0) /\ LeInt(money_leftover, Scaled(500))
    /\ feedback = "warning" <=>
           GtInt(money_leftover, 0 - Scaled(500)) /\ LeInt(money_leftover, 0)
    /\ feedback = "error" <=> LeInt(money_leftover, 0 - Scaled(500))

\* a run with a leftover strictly between -$500 and $0 that is not a whole
\* number of steps, reported as SlightlyOver
C3_Witness ==
    /\ feedback = "warning"
    /\ money_leftover.n > 0
    /\ GtInt(money_leftover, 0 - Scaled(500))
    /\ LtInt(money_leftover, 0)

\* C4: the overtime deduction is a cliff on grossAnnualTotal: 0 from the
\* phase-out threshold on (150000 Single, 300000 Married), and
\* min(grossOvertimeAnnual / 3, cap) below it (cap 12500 Single, 25000
\* Married); it is never negative and never above the cap.
C4_OvertimeDeductionCliff ==
    LET threshold == IF Married THEN Usd(300000) ELSE Usd(150000)
        cap       == IF Married THEN Usd(25000) ELSE Usd(12500)
    IN  /\ gross_annual_total >= threshold => ot_deduction = 0
        /\ gross_annual_total < threshold =>
               IF gross_overtime_annual <= 3 * cap
               THEN 3 * ot_deduction = gross_overtime_annual
               ELSE ot_deduction = cap
        /\ ot_deduction >= 0
        /\ ot_deduction <= cap

\* a run with overtime whose annual gross is exactly the threshold
C4_Witness ==
    /\ gross_overtime_monthly > 0
    /\ gross_annual_total = (IF Married THEN Usd(300000) ELSE Usd(150000))
    /\ ot_deduction = 0

\* C5: federalTaxActual <= federalTaxFull, with equality iff the overtime
\* deduction is 0 (a positive deduction always saves a strictly positive
\* amount, also when taxableBase is 0 and the 0.22 rate is used).
C5_ActualAtMostFull ==
    /\ LeInt(fed_tax_actual, fed_tax_full)
    /\ fed_tax_actual = Whole(fed_tax_full) <=> ot_deduction = 0
    /\ ot_deduction > 0 => GtInt(fed_tax_savings, 0)

\* a run with a positive deduction and a taxable base of 0
C5_Witness ==
    /\ ot_deduction > 0
    /\ taxable_base = 0
    /\ LtInt(fed_tax_actual, fed_tax_full)

\* the reference sum of C6 over brackets[i..]: rate * max(0, min(base, high)
\* - low) for each bracket with base > low
RECURSIVE C6_MarginalSum(_, _, _)
C6_MarginalSum(brackets, i, tb) ==
    IF i > Len(brackets) THEN 0
    ELSE (IF tb > brackets[i][1]
          THEN brackets[i][3] * Max(0, Min(tb, brackets[i][2]) - brackets[i][1])
          ELSE 0)
         + C6_MarginalSum(brackets, i + 1, tb)

\* C6: the loop's federalTaxFull is the reference marginal-bracket sum; a
\* Single base of exactly 11925 is taxed 1192.50; and between two runs with
\* the same filing status federalTaxFull does not decrease when taxableBase
\* does not.
C6_BracketTax ==
    /\ [](/\ fed_tax_full =
                 C6_MarginalSum(Brackets(filing_status, taxable_base), 1,
                                taxable_base)
          /\ (~Married /\ taxable_base = Usd(11925)) =>
                 fed_tax_full * 625 = 119250 * RateScale)
    /\ [][(filing_status' = filing_status /\ taxable_base' >= taxable_base) =>
              fed_tax_full' >= fed_tax_full]_vars

\* a Single run whose taxable base is exactly the first bracket boundary
C6_Witness ==
    /\ ~Married
    /\ taxable_base = Usd(11925)
    /\ fed_tax_full > 0

\* C7 (as stated; the script violates it): whenever taxableBase is 0 the
\* federal income tax is zero, in full and as actually charged, for every
\* split of the gross between base salary and overtime.
C7_ZeroBaseZeroTax ==
    taxable_base = 0 => (fed_tax_full = 0 /\ fed_tax_actual = Whole(0))

\* C8: up to the wage cap (176100) ficaAnnual is gross * (0.062 + 0.0145);
\* above it, 176100 * 0.062 + gross * 0.0145.
C8_Fica ==
    IF gross_annual_total <= Usd(176100)
    THEN fica_annual = gross_annual_total * (620 + 145)
    ELSE fica_annual = Usd(176100) * 620 + gross_annual_total * 145

\* a run with an annual gross above the wage cap
C8_Witness ==
    /\ gross_annual_total > Usd(176100)
    /\ fica_annual > 0

\* the sum of the amounts of the categories in S
RECURSIVE C9_Sum(_, _)
C9_Sum(amounts, S) ==
    IF S = {} THEN 0
    ELSE LET c == CHOOSE x \in S : TRUE
         IN  amounts[c] + C9_Sum(amounts, S \ {c})

\* C9: totalTakeHome = netMonthly + otherNetIncome, totalExpenses is the sum
\* of all category amounts, and leftover = totalTakeHome - totalExpenses -
\* plannedSavings, the planned savings counted once and not in totalExpenses.
C9_Leftover ==
    /\ total_take_home = PlusInt(net_monthly, other_net_income * RateScale)
    /\ total_lifestyle_expenses = C9_Sum(lifestyle_expenses, Categories)
    /\ money_leftover =
           MinusInt(total_take_home,
                    (total_lifestyle_expenses + planned_savings) * RateScale)

\* a run with every category at 0, planned savings and a salary
C9_Witness ==
    /\ total_lifestyle_expenses = 0
    /\ planned_savings > 0
    /\ gross_monthly_salary > 0
    /\ money_leftover = MinusInt(net_monthly, planned_savings * RateScale)

\* C10: for every state of the table, and for an unlisted one, the total
\* annual tax is between 0 and the annual gross, so 0 <= netAnnual <=
\* grossAnnualTotal.
C10_TaxWithinGross ==
    /\ \A st \in StateNames \cup {"Unlisted"} :
           LET tax == PlusInt(fed_tax_actual,
                              fica_annual + gross_annual_total * get_state_rate(st))
           IN  /\ GeInt(tax, 0)
               /\ LeInt(tax, gross_annual_total * RateScale)
    /\ GeInt(total_tax_annual, 0)
    /\ GeInt(net_annual, 0)
    /\ LeInt(net_annual, gross_annual_total * RateScale)

\* a run in a state without income tax whose federal tax is negative
C10_Witness ==
    /\ LtInt(fed_tax_actual, 0)
    /\ state_tax = 0

===========================================================================
